---- MODULE Spec2Model ----
(***************************************************************************)
(* Model of the autokey phrase tokenizer (lib/autokey/tokenizer.py) and    *)
(* phrase parser (lib/autokey/parser.py).                                  *)
(*                                                                         *)
(* A phrase is a sequence of one-character strings.  Offsets are 0-based   *)
(* as in Python: the character at offset p is code[p + 1].                 *)
(***************************************************************************)
EXTENDS Integers, Sequences, FiniteSets, TLC

VARIABLES
    code,            \* tokenize(code): the phrase text
    generator_stop,  \* interpreter semantics: TRUE = PEP 479 (StopIteration
                     \* leaving a generator body becomes RuntimeError),
                     \* FALSE = the generator silently ends
    scan_pos,        \* finditer(): offset at which the next search starts
    line_num,        \* tokenize(): local line_num
    line_start,      \* tokenize(): local line_start
    produced,        \* every Token the tokenizer has yielded so far, in order
    token_queue,     \* PhraseParser.token_queue
    collected_items, \* _collect_macro(): local collected_items
    items,           \* _collect_string_parts(): local items
    it,              \* _collect_string_parts(): the iterator of the for loop:
                     \* index of the next element, and whether the deque
                     \* was mutated since the iterator was created
    item,            \* _try_collect_space / _try_collect_macro_token: local item
    result,          \* value returned by _try_collect_macro: "True", "False"
                     \* or "None" ("unset" before the call returns)
    pc,              \* position in the code
    ret,             \* where _request_next returns to
    frame,           \* innermost generator frame: "parse" or a sub-generator
    exc,             \* exception being propagated ("none" if none)
    error,           \* exception that reached the caller iterating parse()
    out,             \* values yielded by parse() to its caller, in order
    pass_start       \* token_queue and the number of tokens pulled from the
                     \* tokenizer when the current pass of the top-level
                     \* loop of parse() began

vars == <<code, generator_stop, scan_pos, line_num, line_start, produced,
          token_queue, collected_items, items, it, item, result, pc, ret,
          frame, exc, error, out, pass_start>>

tokenizer_vars == <<scan_pos, line_num, line_start, produced>>
parser_vars == <<token_queue, collected_items, items, it, item, result, ret,
                 frame, exc, error, out, pass_start>>

----------------------------------------------------------------------------
(* Bounds of the model *)

\* an input phrase is a concatenation of at most MaxPieces pieces
MaxPieces == 3

----------------------------------------------------------------------------
(* Characters and input phrases *)

LT == "<"
GT == ">"
EQ == "="
SP == " "
NL == "\n"
QUOTE == "\""
BACKSLASH == "\\"

kw_date == <<"d", "a", "t", "e">>
kw_script == <<"s", "c", "r", "i", "p", "t">>
kw_cursor == <<"c", "u", "r", "s", "o", "r">>
kw_file == <<"f", "i", "l", "e">>

Pieces ==
    { <<LT>>, <<GT>>, <<EQ>>, <<SP>>, <<NL>>, <<QUOTE>>, <<BACKSLASH>>,
      <<"x">>, <<"d", "a">>, kw_date, kw_script }

RECURSIVE Flatten(_)
Flatten(ss) == IF ss = <<>> THEN <<>> ELSE Head(ss) \o Flatten(Tail(ss))

\* 'Hello <date format="%Y"> World'
SampleDate ==
    <<"H", "e", "l", "l", "o", SP, LT>> \o kw_date \o
    <<SP, "f", "o", "r", "m", "a", "t", EQ, QUOTE, "%", "Y", QUOTE, GT, SP,
      "W", "o", "r", "l", "d">>

\* '<script args="a\"b">'
SampleEscape ==
    <<LT>> \o kw_script \o
    <<SP, "a", "r", "g", "s", EQ, QUOTE, "a", BACKSLASH, QUOTE, "b", QUOTE, GT>>

\* '<file <date format="%Y">'
SampleNested ==
    <<LT>> \o kw_file \o <<SP, LT>> \o kw_date \o
    <<SP, "f", "o", "r", "m", "a", "t", EQ, QUOTE, "%", "Y", QUOTE, GT>>

\* '< cursor>'
SampleCursor == <<LT, SP>> \o kw_cursor \o <<GT>>

\* '<<<<<': stacked tag-open characters
SampleStacked == <<LT, LT, LT, LT, LT>>

Samples ==
    {SampleDate, SampleEscape, SampleNested, SampleCursor, SampleStacked}

Inputs ==
    { Flatten(ps) : ps \in UNION { [1..n -> Pieces] : n \in 0..MaxPieces } }
    \cup Samples

----------------------------------------------------------------------------
(* tokenizer.py *)

\* PhraseTokenizer.KEYWORDS: the ID of every AbstractMacro subclass of
\* autokey.macro
KEYWORDS == {kw_cursor, kw_date, kw_file, kw_script}

\* a character class for OTHER that also excludes a character no other
\* expression matches
SPECIAL_CHARACTERS_excludes_x == {LT, GT, EQ, SP, BACKSLASH, QUOTE, NL, "x"}

\* the characters excluded by the OTHER character class
SPECIAL_CHARACTERS == {LT, GT, EQ, SP, BACKSLASH, QUOTE, NL}

\* PhraseTokenizer.__init__: the names of the token specifications, in order
token_specifications ==
    <<"BEGIN", "END", "ASSIGN", "MACRO", "NEWLINE", "SPACE",
      "STRING_DELIMITER", "STRING_ESCAPE", "OTHER">>

\* number of consecutive characters of s, from offset p on, that satisfy
\* the character class (inside = TRUE: members of cs, FALSE: non-members)
RECURSIVE RunLen(_, _, _, _)
RunLen(s, p, cs, inside) ==
    IF p < Len(s) /\ ((s[p + 1] \in cs) = inside)
    THEN 1 + RunLen(s, p + 1, cs, inside)
    ELSE 0

\* s has the literal w at offset p
HasLiteralAt(s, p, w) ==
    /\ p + Len(w) <= Len(s)
    /\ SubSeq(s, p + 1, p + Len(w)) = w

\* the MACRO expression "|".join(KEYWORDS): the keywords that match at p
KeywordsAt(s, p) == { k \in KEYWORDS : HasLiteralAt(s, p, k) }

\* a MACRO expression that matches any word
MacroMatchLen_any_word(s, p) ==
    RunLen(s, p, {LT, GT, EQ, SP, BACKSLASH, QUOTE, NL}, FALSE)

MacroMatchLen(s, p) ==
    IF KeywordsAt(s, p) = {} THEN 0
    ELSE Len(CHOOSE k \in KeywordsAt(s, p) : TRUE)

\* length of the match of the named expression at offset p, 0 if it does
\* not match there (no expression matches the empty string)
MatchLen(name, s, p) ==
    CASE name = "BEGIN" -> IF HasLiteralAt(s, p, <<LT>>) THEN 1 ELSE 0
      [] name = "END" -> IF HasLiteralAt(s, p, <<GT>>) THEN 1 ELSE 0
      [] name = "ASSIGN" -> IF HasLiteralAt(s, p, <<EQ>>) THEN 1 ELSE 0
      [] name = "MACRO" -> MacroMatchLen(s, p)
      [] name = "NEWLINE" -> IF HasLiteralAt(s, p, <<NL>>) THEN 1 ELSE 0
      [] name = "SPACE" -> RunLen(s, p, {SP}, TRUE)
      [] name = "STRING_DELIMITER" ->
            IF HasLiteralAt(s, p, <<QUOTE>>) THEN 1 ELSE 0
      [] name = "STRING_ESCAPE" ->
            IF HasLiteralAt(s, p, <<BACKSLASH>>) THEN 1 ELSE 0
      [] name = "OTHER" -> RunLen(s, p, SPECIAL_CHARACTERS, FALSE)

\* an alternation in which the longest match wins
FirstAlternative_longest_match(s, p) ==
    LET matching == { i \in 1..Len(token_specifications) :
                        MatchLen(token_specifications[i], s, p) > 0 }
    IN IF matching = {} THEN 0
       ELSE CHOOSE i \in matching : \A j \in matching :
               \/ MatchLen(token_specifications[i], s, p)
                     > MatchLen(token_specifications[j], s, p)
               \/ /\ MatchLen(token_specifications[i], s, p)
                       = MatchLen(token_specifications[j], s, p)
                  /\ i <= j

\* AbstractTokenizer.__init__: the alternation of the named groups; at one
\* offset the first alternative that matches wins (0 if none does)
FirstAlternative(s, p) ==
    LET matching == { i \in 1..Len(token_specifications) :
                        MatchLen(token_specifications[i], s, p) > 0 }
    IN IF matching = {} THEN 0
       ELSE CHOOSE i \in matching : \A j \in matching : i <= j

\* finditer(): the offset of the leftmost match at or after p, -1 if none
RECURSIVE SearchFrom(_, _)
SearchFrom(s, p) ==
    IF p >= Len(s) THEN -1
    ELSE IF FirstAlternative(s, p) # 0 THEN p
    ELSE SearchFrom(s, p + 1)

Token(typ, value, line, column) ==
    [typ |-> typ, value |-> value, line |-> line, column |-> column]

\* the match object of the next iteration of the for loop of tokenize():
\* mo.start(), mo.end(), mo.lastgroup
NextMatch(s, p) ==
    LET start == SearchFrom(s, p)
        kind == token_specifications[FirstAlternative(s, start)]
    IN [start |-> start,
        end |-> start + MatchLen(kind, s, start),
        lastgroup |-> kind]

\* the token generator has no further token
Exhausted == SearchFrom(code, scan_pos) = -1

\* the Token the generator yields next
NextToken ==
    LET mo == NextMatch(code, scan_pos)
    IN Token(mo.lastgroup, SubSeq(code, mo.start + 1, mo.end),
             line_num, mo.start - line_start)

\* every Token tokenize(s) yields from offset p on, with the line
\* bookkeeping ln = line_num and ls = line_start
RECURSIVE TokensFrom(_, _, _, _)
TokensFrom(s, p, ln, ls) ==
    IF SearchFrom(s, p) = -1 THEN <<>>
    ELSE LET mo == NextMatch(s, p)
             tok == Token(mo.lastgroup, SubSeq(s, mo.start + 1, mo.end),
                          ln, mo.start - ls)
         IN IF mo.lastgroup = "NEWLINE"
            THEN <<tok>> \o TokensFrom(s, mo.end, ln + 1, mo.end)
            ELSE <<tok>> \o TokensFrom(s, mo.end, ln, ls)

\* list(tokenize(s))
AllTokens(s) == TokensFrom(s, 0, 1, 0)

\* the tokens the generator has not yielded yet
UnreadTokens == TokensFrom(code, scan_pos, line_num, line_start)

Values(toks) == [i \in 1..Len(toks) |-> toks[i].value]

\* an iteration that takes the start of the NEWLINE match as line_start
tokenize_next_line_start_at_match_start ==
    LET mo == NextMatch(code, scan_pos)
    IN /\ produced' = Append(produced, NextToken)
       /\ scan_pos' = mo.end
       /\ line_start' =
             IF mo.lastgroup = "NEWLINE" THEN mo.start ELSE line_start
       /\ line_num' = IF mo.lastgroup = "NEWLINE" THEN line_num + 1 ELSE line_num

\* next(self.tokens) on a generator that still has a token: one iteration
\* of the for loop of tokenize(), with the NEWLINE bookkeeping that follows
\* the yield
tokenize_next ==
    LET mo == NextMatch(code, scan_pos)
    IN /\ produced' = Append(produced, NextToken)
       /\ scan_pos' = mo.end
       /\ line_start' = IF mo.lastgroup = "NEWLINE" THEN mo.end ELSE line_start
       /\ line_num' = IF mo.lastgroup = "NEWLINE" THEN line_num + 1 ELSE line_num

----------------------------------------------------------------------------
(* State after construction *)

NoToken == Token("", <<>>, 0, 0)

InitCommon ==
    /\ code \in Inputs
    /\ generator_stop \in BOOLEAN
    /\ scan_pos = 0
    /\ line_num = 1
    /\ line_start = 0
    /\ produced = <<>>
    /\ token_queue = <<>>
    /\ collected_items = <<>>
    /\ items = <<>>
    /\ it = [stale |-> FALSE, index |-> 0]
    /\ item = NoToken
    /\ result = "unset"
    /\ ret = "none"
    /\ frame = "parse"
    /\ exc = "none"
    /\ error = "none"
    /\ out = <<>>
    /\ pass_start = [token_queue |-> <<>>, pulled |-> 0]

----------------------------------------------------------------------------
(* parser.py: iterating PhraseParser(tokenize(code)).parse() to its end *)

StringSection(parts) == [kind |-> "StringSection", parts |-> parts]

MacroSection(keyword, parameters) ==
    [kind |-> "MacroSection", parts |-> <<>>, keyword |-> keyword,
     parameters |-> parameters]

\* the generator object of a generator function that was called and not run
GeneratorObject(name) == [kind |-> "generator", parts |-> <<>>, name |-> name]

\* StringSection.collect
collect(section) == Flatten(section.parts)

\* MacroSection.MACRO_CLASSES with the ARGS of each macro class: the names
\* of the required parameters of each registered keyword.  parser.py:49
\* takes it from autokey.tokenizer.extract_phrase_macro_classes and the
\* classes of autokey.macro; the descriptors here are those of the
\* specification: script and file require name, date and cursor nothing.
MACRO_CLASSES ==
    [k \in KEYWORDS |->
        IF k \in {kw_script, kw_file} THEN {<<"n", "a", "m", "e">>} ELSE {}]

\* _collect_quoted_string(), lines 180-182: an empty local deque is made,
\* nothing is taken from the token queue, and None is returned
collect_quoted_string(queue) ==
    [typ |-> "NoneType", value |-> <<>>, token_queue |-> queue]

\* bool(value) of a value returned by _try_collect_macro
Truthy(value) == value = "True"

RECURSIVE Reverse(_)
Reverse(s) == IF s = <<>> THEN <<>> ELSE Reverse(Tail(s)) \o <<Head(s)>>

\* deque.extendleft(iterable): each element in turn is appended on the left
extendleft(deque, iterable) == Reverse(iterable) \o deque

\* the deque changed after the iterator of the for loop was created
mutated(iterator) == [iterator EXCEPT !.stale = TRUE]

Init == InitCommon /\ pc = "parse"

\* parse(), lines 73-76: the initial pull; StopIteration is not GeneratorExit
parse ==
    /\ pc = "parse"
    /\ IF ~Exhausted
       THEN /\ tokenize_next
            /\ token_queue' = Append(token_queue, NextToken)
            /\ pc' = "parse_loop"
            /\ exc' = exc
       ELSE /\ exc' = "StopIteration"
            /\ pc' = "raise"
            /\ UNCHANGED token_queue
            /\ UNCHANGED tokenizer_vars
    /\ UNCHANGED <<code, generator_stop, collected_items, items, it, item,
                   result, ret, frame, error, out, pass_start>>

\* parse(), lines 78-83: the head of the while loop
parse_loop ==
    /\ pc = "parse_loop"
    /\ IF token_queue = <<>>
       THEN /\ pc' = "done"
            /\ UNCHANGED <<frame, pass_start>>
       ELSE /\ pass_start' = [token_queue |-> token_queue,
                              pulled |-> Len(produced)]
            /\ IF token_queue[1].typ = "BEGIN"
               THEN pc' = "_collect_macro" /\ frame' = "_collect_macro"
               ELSE /\ pc' = "_collect_string_parts"
                    /\ frame' = "_collect_string_parts"
    /\ UNCHANGED <<code, generator_stop, token_queue, collected_items, items,
                   it, item, result, ret, exc, error, out>>
    /\ UNCHANGED tokenizer_vars

\* _collect_string_parts(), lines 90-91: items = [] and iter(self.token_queue)
collect_string_parts ==
    /\ pc = "_collect_string_parts"
    /\ items' = <<>>
    /\ it' = [stale |-> FALSE, index |-> 0]
    /\ pc' = "for_token"
    /\ UNCHANGED <<code, generator_stop, token_queue, collected_items, item,
                   result, ret, frame, exc, error, out, pass_start>>
    /\ UNCHANGED tokenizer_vars

\* _collect_string_parts(), lines 91-98: one step of the for loop.  The deque
\* iterator raises RuntimeError when the deque changed since iter(); the
\* loop ends at the end of the deque or breaks at a BEGIN token, and then
\* the StringSection is yielded and the generator returns.
for_token ==
    /\ pc = "for_token"
    /\ IF it.stale
       THEN /\ exc' = "RuntimeError: deque mutated during iteration"
            /\ pc' = "raise"
            /\ UNCHANGED <<token_queue, items, it, ret, frame, out>>
       ELSE IF \/ it.index >= Len(token_queue)
               \/ token_queue[it.index + 1].typ = "BEGIN"
       THEN /\ out' = Append(out, StringSection(items))
            /\ pc' = "parse_loop"
            /\ frame' = "parse"
            /\ UNCHANGED <<token_queue, items, it, ret, exc>>
       ELSE /\ items' = Append(items, Head(token_queue).value)
            /\ token_queue' = Tail(token_queue)
            /\ it' = mutated([it EXCEPT !.index = it.index + 1])
            /\ pc' = "_request_next"
            /\ ret' = "for_token"
            /\ UNCHANGED <<frame, exc, out>>
    /\ UNCHANGED <<code, generator_stop, collected_items, item, result, error,
                   pass_start>>
    /\ UNCHANGED tokenizer_vars

\* _request_next(), lines 174-178: StopIteration is not GeneratorExit
request_next ==
    /\ pc = "_request_next"
    /\ IF ~Exhausted
       THEN /\ tokenize_next
            /\ token_queue' = Append(token_queue, NextToken)
            /\ it' = mutated(it)
            /\ pc' = ret
            /\ exc' = exc
       ELSE /\ exc' = "StopIteration"
            /\ pc' = "raise"
            /\ UNCHANGED <<token_queue, it>>
            /\ UNCHANGED tokenizer_vars
    /\ UNCHANGED <<code, generator_stop, collected_items, items, item, result,
                   ret, frame, error, out, pass_start>>

\* an exception leaves the innermost generator frame.  StopIteration becomes
\* RuntimeError under PEP 479 and otherwise ends just that generator: parse()
\* itself, or the sub-generator parse() delegates to with yield from, whose
\* locals are lost.  Every other exception reaches the caller of parse().
raise ==
    /\ pc = "raise"
    /\ exc' = "none"
    /\ IF exc = "StopIteration" /\ ~generator_stop
       THEN /\ pc' = IF frame = "parse" THEN "done" ELSE "parse_loop"
            /\ frame' = "parse"
            /\ collected_items' = <<>>
            /\ items' = <<>>
            /\ error' = error
       ELSE /\ error' = IF exc = "StopIteration"
                         THEN "RuntimeError: generator raised StopIteration"
                         ELSE exc
            /\ pc' = "done"
            /\ UNCHANGED <<frame, collected_items, items>>
    /\ UNCHANGED <<code, generator_stop, token_queue, it, item, result, ret,
                   out, pass_start>>
    /\ UNCHANGED tokenizer_vars

\* _collect_macro(), lines 111-113
collect_macro ==
    /\ pc = "_collect_macro"
    /\ collected_items' = <<Head(token_queue)>>
    /\ token_queue' = Tail(token_queue)
    /\ it' = mutated(it)
    /\ result' = "unset"
    /\ pc' = "_request_next"
    /\ ret' = "_try_collect_space"
    /\ UNCHANGED <<code, generator_stop, items, item, frame, exc, error, out,
                   pass_start>>
    /\ UNCHANGED tokenizer_vars

\* _try_collect_space(), lines 141-147, called at line 129
try_collect_space ==
    /\ pc = "_try_collect_space"
    /\ IF token_queue = <<>>
       THEN /\ exc' = "IndexError: pop from an empty deque"
            /\ pc' = "raise"
            /\ UNCHANGED <<token_queue, collected_items, it, item, ret>>
       ELSE /\ item' = Head(token_queue)
            /\ it' = mutated(it)
            /\ exc' = exc
            /\ IF Head(token_queue).typ = "SPACE"
               THEN /\ collected_items' =
                          Append(collected_items, Head(token_queue))
                    /\ token_queue' = Tail(token_queue)
                    /\ pc' = "_request_next"
                    /\ ret' = "try_collect_space_return"
               ELSE /\ token_queue' =
                          <<Head(token_queue)>> \o Tail(token_queue)
                    /\ pc' = "try_collect_space_return"
                    /\ UNCHANGED <<collected_items, ret>>
    /\ UNCHANGED <<code, generator_stop, items, result, frame, error, out,
                   pass_start>>
    /\ UNCHANGED tokenizer_vars

\* _try_collect_space(), line 148, and _try_collect_macro(), lines 129-130
try_collect_space_return ==
    /\ pc = "try_collect_space_return"
    /\ IF ~(token_queue # <<>>)
       THEN result' = "False" /\ pc' = "collect_macro_check"
       ELSE result' = result /\ pc' = "_try_collect_macro_token"
    /\ UNCHANGED <<code, generator_stop, token_queue, collected_items, items,
                   it, item, ret, frame, exc, error, out, pass_start>>
    /\ UNCHANGED tokenizer_vars

\* _try_collect_macro_token(), lines 156-158, called at line 132
try_collect_macro_token ==
    /\ pc = "_try_collect_macro_token"
    /\ IF token_queue = <<>>
       THEN /\ exc' = "IndexError: pop from an empty deque"
            /\ pc' = "raise"
            /\ UNCHANGED <<token_queue, collected_items, it, item, ret>>
       ELSE /\ item' = Head(token_queue)
            /\ token_queue' = Tail(token_queue)
            /\ collected_items' = Append(collected_items, Head(token_queue))
            /\ it' = mutated(it)
            /\ pc' = "_request_next"
            /\ ret' = "try_collect_macro_token_return"
            /\ exc' = exc
    /\ UNCHANGED <<code, generator_stop, items, result, frame, error, out,
                   pass_start>>
    /\ UNCHANGED tokenizer_vars

\* the value _try_collect_macro() returns once _try_collect_macro_token()
\* returned collected (line 160): False at line 133, and None when the
\* function runs off its end after line 133
try_collect_macro_result(collected) == IF ~collected THEN "False" ELSE "None"

\* _try_collect_macro_token(), line 160, and _try_collect_macro(),
\* lines 132-133
try_collect_macro_token_return ==
    /\ pc = "try_collect_macro_token_return"
    /\ result' = try_collect_macro_result(
                     (item.typ = "MACRO") /\ (token_queue # <<>>))
    /\ pc' = "collect_macro_check"
    /\ UNCHANGED <<code, generator_stop, token_queue, collected_items, items,
                   it, item, ret, frame, exc, error, out, pass_start>>
    /\ UNCHANGED tokenizer_vars

\* _collect_macro(), lines 114-118: a truthy result passes and the generator
\* returns without a yield; otherwise the collected tokens are pushed back
collect_macro_check ==
    /\ pc = "collect_macro_check"
    /\ IF Truthy(result)
       THEN /\ pc' = "parse_loop"
            /\ frame' = "parse"
            /\ collected_items' = <<>>
            /\ UNCHANGED <<token_queue, it>>
       ELSE /\ token_queue' = extendleft(token_queue, collected_items)
            /\ it' = mutated(it)
            /\ pc' = "collect_macro_yield"
            /\ UNCHANGED <<frame, collected_items>>
    /\ UNCHANGED <<code, generator_stop, items, item, result, ret, exc, error,
                   out, pass_start>>
    /\ UNCHANGED tokenizer_vars

\* _collect_macro(), lines 119-121: the generator object made by calling
\* _collect_string_parts() is yielded as it is, and never run
collect_macro_yield ==
    /\ pc = "collect_macro_yield"
    /\ out' = Append(out, GeneratorObject("_collect_string_parts"))
    /\ pc' = "parse_loop"
    /\ frame' = "parse"
    /\ collected_items' = <<>>
    /\ UNCHANGED <<code, generator_stop, token_queue, items, it, item, result,
                   ret, exc, error, pass_start>>
    /\ UNCHANGED tokenizer_vars

Next ==
    \/ parse
    \/ parse_loop
    \/ collect_string_parts
    \/ for_token
    \/ request_next
    \/ raise
    \/ collect_macro
    \/ try_collect_space
    \/ try_collect_space_return
    \/ try_collect_macro_token
    \/ try_collect_macro_token_return
    \/ collect_macro_check
    \/ collect_macro_yield

Spec == Init /\ [][Next]_vars

----------------------------------------------------------------------------
(* Properties of the parser *)

\* the parse has ended: parse() returned or raised to its caller
Finished == pc = "done"

\* the source text a yielded value stands for: the joined parts of a
\* literal segment (a macro segment would stand for the text of its tokens)
SourceText(section) ==
    IF section.kind = "StringSection" THEN collect(section) ELSE <<>>

\* the tokens still obtainable from a token queue when `pulled` tokens have
\* been pulled from the tokenizer: the queue, then the unread token stream
Obtainable(queue, pulled) ==
    LET toks == AllTokens(code)
    IN queue \o SubSeq(toks, pulled + 1, Len(toks))

\* C1: iterating parse() to its end raises no error, whatever the input.
ParseCompletesWithoutError == Finished => error = "none"

\* C2: when the parse has ended, the source texts of the yielded segments,
\* in order, concatenate to the input.
SegmentCoverage ==
    Finished => Flatten([i \in 1..Len(out) |-> SourceText(out[i])]) = code

\* C3: after the rollback of a failed macro collection the tokens obtainable
\* from the buffer are those obtainable before the BEGIN token was popped.
RollbackRestoresTokens ==
    pc = "collect_macro_yield" =>
        Obtainable(token_queue, Len(produced))
            = Obtainable(pass_start.token_queue, pass_start.pulled)

\* C4: a well-formed tag of a registered keyword whose required parameters
\* are supplied gives one macro segment, between the literal segments of
\* the text around it: 'Hello <date format="%Y"> World', and the tags
\* '<keyword>' and '< keyword>' of a keyword that requires no parameter.
WellFormedMacroExtracted ==
    Finished =>
        /\ code = SampleDate =>
              /\ Len(out) = 3
              /\ out[1].kind = "StringSection"
              /\ collect(out[1]) = <<"H", "e", "l", "l", "o", SP>>
              /\ out[2] = MacroSection(kw_date,
                     [n \in {<<"f", "o", "r", "m", "a", "t">>} |-> <<"%", "Y">>])
              /\ out[3].kind = "StringSection"
              /\ collect(out[3]) = <<SP, "W", "o", "r", "l", "d">>
        /\ \A k \in KEYWORDS :
              /\ MACRO_CLASSES[k] = {}
              /\ code \in {<<LT>> \o k \o <<GT>>, <<LT, SP>> \o k \o <<GT>>}
              => out = <<MacroSection(k, <<>>)>>

\* C5: a well-formed tag that lacks a required parameter of its keyword
\* ('<script>', script requiring name) is emitted as one literal segment
\* with the text of the tag, and not as a macro segment.
RequiredParameterEnforced ==
    Finished =>
        \A k \in KEYWORDS :
            MACRO_CLASSES[k] # {} /\ code = <<LT>> \o k \o <<GT>>
            => /\ Len(out) = 1
               /\ out[1].kind = "StringSection"
               /\ collect(out[1]) = code

\* the number of tokens not yet consumed for good
Remaining(queue, pulled) == Len(Obtainable(queue, pulled))

\* C6: every pass of the top-level loop of parse() that returns to the head
\* of the loop has consumed at least one token for good.
LoopPassConsumesToken ==
    [][(pc \notin {"parse", "parse_loop"} /\ pc' = "parse_loop")
        => Remaining(token_queue', Len(produced'))
              < Remaining(pass_start.token_queue, pass_start.pulled)]_vars

\* C7: a pull from the exhausted token sequence (the initial pull of parse()
\* and _request_next) leaves the token queue unchanged and raises nothing.
PullWhenExhaustedIsNoOp ==
    [][(pc \in {"parse", "_request_next"} /\ Exhausted)
        => (token_queue' = token_queue /\ exc' = "none")]_vars

\* the tokens of the quoted value of SampleEscape that follow its opening
\* STRING_DELIMITER: a, backslash, quote, b, quote, END
EscapedValueTokens == SubSeq(AllTokens(SampleEscape), 7, 12)

\* C9: the value written as a, backslash, quote, b is collected as a"b: by
\* the quoted-string collection, and in the macro segment of the parse of
\* '<script args="a\"b">'.
EscapedDelimiterHandled ==
    (Finished /\ code = SampleEscape) =>
        /\ collect_quoted_string(EscapedValueTokens).typ = "str"
        /\ collect_quoted_string(EscapedValueTokens).value = <<"a", QUOTE, "b">>
        /\ \E i \in 1..Len(out) :
              /\ out[i].kind = "MacroSection"
              /\ out[i].keyword = kw_script
              /\ out[i].parameters[<<"a", "r", "g", "s">>] = <<"a", QUOTE, "b">>

\* the offsets in the input at which the tokens of toks start
RECURSIVE TokenOffsets(_, _)
TokenOffsets(toks, start) ==
    IF toks = <<>> THEN <<>>
    ELSE <<start>> \o TokenOffsets(Tail(toks), start + Len(Head(toks).value))

\* the offsets at which a word starts: a maximal run of characters that are
\* none of the special characters
WordStarts ==
    { p \in 0..Len(code) - 1 :
        /\ code[p + 1] \notin SPECIAL_CHARACTERS
        /\ (p = 0 \/ code[p] \in SPECIAL_CHARACTERS) }

\* the word that starts at offset p
WordAt(p) == SubSeq(code, p + 1, p + RunLen(code, p, SPECIAL_CHARACTERS, FALSE))

\* the word that starts at offset p is one OTHER token of toks, whose
\* tokens start at the offsets offs
WordIsOther(toks, offs, p) ==
    \E i \in 1..Len(toks) :
        /\ offs[i] = p
        /\ toks[i].typ = "OTHER"
        /\ toks[i].value = WordAt(p)

\* a token of toks is a MACRO token exactly when its value is a registered
\* keyword
MacroTokensAreKeywords(toks) ==
    \A i \in 1..Len(toks) :
        (toks[i].typ = "MACRO") <=> (toks[i].value \in KEYWORDS)

\* C10 as stated: MACRO tokens are produced only for registered keywords,
\* and every word that is not a registered keyword is tokenized as OTHER.
UnregisteredWordIsOther ==
    LET toks == AllTokens(code)
        offs == TokenOffsets(toks, 0)
    IN /\ MacroTokensAreKeywords(toks)
       /\ \A p \in WordStarts :
             WordAt(p) \notin KEYWORDS => WordIsOther(toks, offs, p)

\* C10, amended: a token is a MACRO token exactly when its value is a
\* registered keyword; a word that does not begin with a registered keyword
\* is one OTHER token; and the token on which _try_collect_macro_token
\* succeeds is a MACRO token of a registered keyword.
MacroTokenOnlyForKeyword ==
    LET toks == AllTokens(code)
        offs == TokenOffsets(toks, 0)
    IN /\ MacroTokensAreKeywords(toks)
       /\ \A p \in WordStarts :
             KeywordsAt(code, p) = {} => WordIsOther(toks, offs, p)
       /\ (pc = "collect_macro_check" /\ result = "None")
             => (item.typ = "MACRO" /\ item.value \in KEYWORDS)

\* _try_collect_macro_token has succeeded on the MACRO token of a phrase
\* that also holds a word that does not begin with a keyword, tokenized as
\* OTHER
MacroTokenOnlyForKeywordWitness ==
    /\ pc = "collect_macro_check"
    /\ result = "None"
    /\ item.typ = "MACRO"
    /\ \E p \in WordStarts :
          /\ KeywordsAt(code, p) = {}
          /\ WordIsOther(AllTokens(code), TokenOffsets(AllTokens(code), 0), p)

\* a pass of the top-level loop of parse() returns to the head of the loop
PassReturns == pc \notin {"parse", "parse_loop"} /\ pc' = "parse_loop"

\* C12: every pass of the top-level loop of parse() emits exactly one value,
\* and that value is a Segment: a StringSection or a MacroSection.
PassEmitsOneSegment ==
    [][PassReturns
        => /\ Len(out') = Len(out) + 1
           /\ out'[Len(out')].kind \in {"StringSection", "MacroSection"}]_vars

\* the longest prefix of toks without a BEGIN token
RECURSIVE NonBeginRun(_)
NonBeginRun(toks) ==
    IF toks = <<>> \/ Head(toks).typ = "BEGIN" THEN <<>>
    ELSE <<Head(toks)>> \o NonBeginRun(Tail(toks))

\* C13: a pass that began with a token other than BEGIN at the head ends
\* with one literal segment yielded, whose parts are the values of the
\* maximal run of non-BEGIN tokens, and with exactly the tokens after that
\* run still obtainable (the next BEGIN at the head of the queue).
StringCollectionYieldsRun ==
    (/\ pc \in {"parse_loop", "done"}
     /\ pass_start.token_queue # <<>>
     /\ pass_start.token_queue[1].typ # "BEGIN")
    => LET before == Obtainable(pass_start.token_queue, pass_start.pulled)
           run == NonBeginRun(before)
       IN /\ out # <<>>
          /\ out[Len(out)] = StringSection(Values(run))
          /\ Obtainable(token_queue, Len(produced))
                = SubSeq(before, Len(run) + 1, Len(before))

\* C14: for '<file <date format="%Y">' the malformed prefix '<file ' is
\* emitted as literal text and the well-formed tag after it as a macro
\* segment of date with format %Y.
NestedRetryFindsMacro ==
    (Finished /\ code = SampleNested)
    => /\ Len(out) = 2
       /\ out[1].kind = "StringSection"
       /\ collect(out[1]) = <<LT>> \o kw_file \o <<SP>>
       /\ out[2] = MacroSection(kw_date,
              [n \in {<<"f", "o", "r", "m", "a", "t">>} |-> <<"%", "Y">>])

\* C15: the token queue holds at most one token more than the tokens the
\* current or just rolled-back macro collection has consumed, of which
\* there are at most three (BEGIN, SPACE and the MACRO candidate), however
\* many collections have failed before.
BoundedLookahead ==
    /\ collected_items # <<>> => Len(token_queue) <= Len(collected_items) + 1
    /\ Len(token_queue) <= 3 + 1

\* C19: _try_collect_macro_token on a head token that is not MACRO, and
\* _try_collect_space on a head token that is not SPACE, leave the token
\* queue and collected_items as they are and pull no token.
TryCollectLeavesOtherTokens ==
    [][(\/ /\ pc = "_try_collect_macro_token"
           /\ token_queue # <<>>
           /\ Head(token_queue).typ # "MACRO"
        \/ /\ pc = "_try_collect_space"
           /\ token_queue # <<>>
           /\ Head(token_queue).typ # "SPACE")
        => /\ token_queue' = token_queue
           /\ collected_items' = collected_items
           /\ produced' = produced
           /\ pc' # "_request_next"]_vars

\* number of elements of the sequence s that equal v
Count(v, s) == Cardinality({ i \in 1..Len(s) : s[i] = v })

\* the token values the parser holds or can still get: the parts of the
\* yielded segments, the values popped for the literal segment being built
\* and the tokens of the speculation side buffer (both gone once the parse
\* has ended), the token queue and the unread token stream
HeldValues ==
    Flatten([i \in 1..Len(out) |-> out[i].parts])
    \o (IF Finished THEN <<>> ELSE items \o Values(collected_items))
    \o Values(token_queue)
    \o Values(UnreadTokens)

\* C20: at every point of a parse each token value of the input is held as
\* often as it occurs in the input: no token is discarded or held twice.
TokenConservation ==
    LET held == HeldValues
        all == Values(AllTokens(code))
    IN \A v \in { all[i] : i \in 1..Len(all) } \cup
                { held[i] : i \in 1..Len(held) } :
          Count(v, held) = Count(v, all)

----------------------------------------------------------------------------
(* Iterating PhraseTokenizer().tokenize(code) on its own *)

TokInit == InitCommon /\ pc = "tokenize"

\* the consumer asks for the next token and gets one
tokenize ==
    /\ pc = "tokenize"
    /\ ~Exhausted
    /\ tokenize_next
    /\ UNCHANGED <<code, generator_stop, pc>>
    /\ UNCHANGED parser_vars

\* the consumer asks for the next token and the generator is finished
tokenize_end ==
    /\ pc = "tokenize"
    /\ Exhausted
    /\ pc' = "tokenized"
    /\ UNCHANGED <<code, generator_stop>>
    /\ UNCHANGED tokenizer_vars
    /\ UNCHANGED parser_vars

TokNext == tokenize \/ tokenize_end

TokSpec == TokInit /\ [][TokNext]_vars

----------------------------------------------------------------------------
(* Properties of the tokenizer *)

\* position (line, column) of token a is strictly before that of token b
PositionBefore(a, b) ==
    \/ a.line < b.line
    \/ a.line = b.line /\ a.column < b.column

\* C8: the tokens produced so far are non-empty, in strictly increasing
\* position order, and their values concatenate to exactly the text scanned
\* so far (no gap, no overlap); when the tokenizer is finished the values
\* concatenate to the whole input.
TokenizerLossless ==
    /\ Flatten(Values(produced)) = SubSeq(code, 1, scan_pos)
    /\ \A i \in 1..Len(produced) : produced[i].value # <<>>
    /\ \A i \in 1..Len(produced) - 1 :
          PositionBefore(produced[i], produced[i + 1])
    /\ (pc = "tokenized" => Flatten(Values(produced)) = code)

\* a phrase with a keyword, plain text and a line break has been tokenized
\* to its end
TokenizerLosslessWitness ==
    /\ pc = "tokenized"
    /\ Len(produced) >= 3
    /\ \E i \in 1..Len(produced) : produced[i].typ = "MACRO"
    /\ \E i \in 1..Len(produced) : produced[i].typ = "OTHER"
    /\ \E i \in 1..Len(produced) : produced[i].typ = "NEWLINE"

\* C16: every token produced starts where the previous one ended, its kind
\* is that of the first expression, in the configured order, that matches
\* at that offset, and its value is that match; where a registered keyword
\* starts at the offset of a token, the token is a MACRO token.
TokenizerPriority ==
    LET offs == TokenOffsets(produced, 0)
    IN \A i \in 1..Len(produced) :
          /\ \E k \in 1..Len(token_specifications) :
                /\ token_specifications[k] = produced[i].typ
                /\ MatchLen(token_specifications[k], code, offs[i])
                      = Len(produced[i].value)
                /\ HasLiteralAt(code, offs[i], produced[i].value)
                /\ \A j \in 1..(k - 1) :
                      MatchLen(token_specifications[j], code, offs[i]) = 0
          /\ KeywordsAt(code, offs[i]) # {} => produced[i].typ = "MACRO"

\* a phrase in which a keyword is directly followed by more plain text has
\* been tokenized: the keyword is a MACRO token, the rest an OTHER token
TokenizerPriorityWitness ==
    /\ pc = "tokenized"
    /\ \E i \in 1..Len(produced) - 1 :
          /\ produced[i].typ = "MACRO"
          /\ produced[i + 1].typ = "OTHER"

\* the end offset of the last NEWLINE token among the first n tokens of
\* toks, whose tokens start at the offsets offs; 0 if there is none
RECURSIVE LastNewlineEnd(_, _, _)
LastNewlineEnd(toks, offs, n) ==
    IF n = 0 THEN 0
    ELSE IF toks[n].typ = "NEWLINE" THEN offs[n] + Len(toks[n].value)
    ELSE LastNewlineEnd(toks, offs, n - 1)

\* C17: the line of a token is 1 plus the number of NEWLINE tokens before
\* it (so a NEWLINE token carries the line it ends), and its column is its
\* start offset minus the end offset of the last NEWLINE token before it.
PositionTracking ==
    LET offs == TokenOffsets(produced, 0)
    IN \A i \in 1..Len(produced) :
          /\ produced[i].line =
                1 + Cardinality({ j \in 1..(i - 1) :
                                    produced[j].typ = "NEWLINE" })
          /\ produced[i].column =
                offs[i] - LastNewlineEnd(produced, offs, i - 1)

\* a phrase has been tokenized that has, after a line break, a token that
\* does not start its line
PositionTrackingWitness ==
    /\ pc = "tokenized"
    /\ \E i \in 1..Len(produced) :
          produced[i].line >= 2 /\ produced[i].column >= 1

----------------------------------------------------------------------------
(* AbstractTokenizer with a token specification that leaves a gap *)

\* the token specifications of a tokenizer that has no expression for plain
\* text: no expression matches a character that is not special
token_specifications_without_OTHER == SubSeq(token_specifications, 1, 8)

\* AbstractTokenizer.__init__ for the token specifications specs: the first
\* alternative that matches at offset p (0 if none does)
FirstAlternativeOf(specs, s, p) ==
    LET matching == { i \in 1..Len(specs) : MatchLen(specs[i], s, p) > 0 }
    IN IF matching = {} THEN 0
       ELSE CHOOSE i \in matching : \A j \in matching : i <= j

\* finditer() for the token specifications specs: the offset of the leftmost
\* match at or after p, -1 if none; offsets without a match are passed over
RECURSIVE SearchFromOf(_, _, _)
SearchFromOf(specs, s, p) ==
    IF p >= Len(s) THEN -1
    ELSE IF FirstAlternativeOf(specs, s, p) # 0 THEN p
    ELSE SearchFromOf(specs, s, p + 1)

\* the match object of the next iteration of the for loop of tokenize()
NextMatchOf(specs, s, p) ==
    LET start == SearchFromOf(specs, s, p)
        kind == specs[FirstAlternativeOf(specs, s, start)]
    IN [start |-> start,
        end |-> start + MatchLen(kind, s, start),
        lastgroup |-> kind]

\* tokenize(), lines 75-83, for the specification without OTHER: the
\* consumer asks for the next token and gets one
tokenize_without_OTHER ==
    /\ pc = "tokenize"
    /\ SearchFromOf(token_specifications_without_OTHER, code, scan_pos) # -1
    /\ LET mo == NextMatchOf(token_specifications_without_OTHER, code, scan_pos)
       IN /\ produced' =
                Append(produced,
                       Token(mo.lastgroup, SubSeq(code, mo.start + 1, mo.end),
                             line_num, mo.start - line_start))
          /\ scan_pos' = mo.end
          /\ line_start' =
                IF mo.lastgroup = "NEWLINE" THEN mo.end ELSE line_start
          /\ line_num' =
                IF mo.lastgroup = "NEWLINE" THEN line_num + 1 ELSE line_num
    /\ UNCHANGED <<code, generator_stop, pc>>
    /\ UNCHANGED parser_vars

\* tokenize(), line 75, for the specification without OTHER: finditer() has
\* no further match and the generator returns
tokenize_without_OTHER_end ==
    /\ pc = "tokenize"
    /\ SearchFromOf(token_specifications_without_OTHER, code, scan_pos) = -1
    /\ pc' = "tokenized"
    /\ UNCHANGED <<code, generator_stop>>
    /\ UNCHANGED tokenizer_vars
    /\ UNCHANGED parser_vars

GapTokNext == tokenize_without_OTHER \/ tokenize_without_OTHER_end

GapTokSpec == TokInit /\ [][GapTokNext]_vars

\* C18: when tokenize() is resumed at an offset of the input at which no
\* expression of the token specification matches, it fails with an error.
UnmatchedInputIsAnError ==
    [][(/\ pc = "tokenize"
        /\ scan_pos < Len(code)
        /\ FirstAlternativeOf(token_specifications_without_OTHER,
                              code, scan_pos) = 0)
        => error' # "none"]_vars

----------------------------------------------------------------------------
(* Re-tokenizing the rendered value of a literal segment *)

\* the values _collect_string_parts() can append to items (parser.py, lines
\* 92-95): the values of the tokens that are not BEGIN tokens
LiteralValues ==
    UNION { { AllTokens(c)[i].value :
                i \in { j \in 1..Len(AllTokens(c)) :
                          AllTokens(c)[j].typ # "BEGIN" } } : c \in Pieces }

\* literal segments of at most MaxPieces parts
LiteralSections ==
    { StringSection(parts) :
        parts \in UNION { [1..n -> LiteralValues] : n \in 0..MaxPieces } }

\* a literal segment has been yielded, and tokenize() is given the value it
\* renders
LiteralInit ==
    /\ out \in { <<section>> : section \in LiteralSections }
    /\ code = collect(out[1])
    /\ generator_stop \in BOOLEAN
    /\ scan_pos = 0
    /\ line_num = 1
    /\ line_start = 0
    /\ produced = <<>>
    /\ token_queue = <<>>
    /\ collected_items = <<>>
    /\ items = <<>>
    /\ it = [stale |-> FALSE, index |-> 0]
    /\ item = NoToken
    /\ result = "unset"
    /\ ret = "none"
    /\ frame = "parse"
    /\ exc = "none"
    /\ error = "none"
    /\ pass_start = [token_queue |-> <<>>, pulled |-> 0]
    /\ pc = "tokenize"

LiteralSpec == LiteralInit /\ [][TokNext]_vars

\* no registered keyword occurs in the text s
NoKeywordIn(s) == \A p \in 0..(Len(s) - 1) : KeywordsAt(s, p) = {}

====
